---- MODULE Spec2Model ----
(***************************************************************************)
(* Model of pytorch_toolbox/train_loop.py: the TrainLoop class.            *)
(*                                                                         *)
(*  - train() / validate(): one pass over a data source, batch by batch,   *)
(*    with the calls made on the model, the optimizer and the callbacks    *)
(*    recorded in order (specification SpecPass);                          *)
(*  - loop(): the epoch loop with checkpoint / history persistence and     *)
(*    resume, over an output directory that outlives the runs              *)
(*    (specification Spec).                                                *)
(*                                                                         *)
(* Floats are exact rationals [n, d] in lowest terms; float('Inf') is 1/0. *)
(***************************************************************************)
EXTENDS Integers, Sequences, FiniteSets, TLC

VARIABLES
  model,      \* self.model: [training, params]; params counts optimizer steps applied
  callbacks,  \* [score, batch, epoch]: lengths of the three callback registries
  script,     \* the training script: the save_all / save_best arguments it passes to
              \* loop() and the losses its validation data can give
  fs,         \* the output directory: artifact name -> content (NoFile when absent)
  pc,         \* position of the running loop() call ("idle" when none runs)
  cfg,        \* arguments of the running (when idle: of the last) loop() call
  loc,        \* local variables of the running loop() call
  result,     \* how the last loop() call ended
  hist,       \* bookkeeping about the runs (number of calls, epochs of this run, ...)
  ppc,        \* position inside train() / validate() when stepped batch by batch
  data,       \* the batches the data source yields in the pass being stepped
  ps,         \* local variables of the pass being stepped
  ret         \* what the last stepped pass returned

vars == <<model, callbacks, script, fs, pc, cfg, loc, result, hist, ppc, data, ps, ret>>
loopVars == <<fs, pc, cfg, loc, result, hist>>
passVars == <<ppc, data, ps, ret>>

-----------------------------------------------------------------------------
(* Bounds *)

MaxBatches == 2
MaxRuns == 3
MaxEpochs == 3
MaxScoreCallbacks == 1
MaxSteps == 4
MaxKills == 1
MaxBatchCallbacks == 2

BatchSizes == {2, 3}
LossValues == {1, 2}
WideLossValues == {1, 2, 3}
ScoreValues == {10, 20}

-----------------------------------------------------------------------------
(* Exact arithmetic standing for Python floats *)

RECURSIVE GCD(_, _)
GCD(a, b) == IF b = 0 THEN a ELSE GCD(b, a % b)

Rat(s, c) == LET g == GCD(s, c) IN [n |-> s \div g, d |-> c \div g]

Zero == [n |-> 0, d |-> 1]

\* float('Inf')
Inf == [n |-> 1, d |-> 0]

\* a < b on floats (Inf compares greater than every finite value, not less than itself)
Less(a, b) == a.n * b.d < b.n * a.d

\* Python's min(a, b): b when b < a, else a
Min(a, b) == IF Less(b, a) THEN b ELSE a

-----------------------------------------------------------------------------
(* pytorch_toolbox.utils.AverageMeter *)

AverageMeter == [sum |-> 0, count |-> 0, avg |-> Zero]

Update(m, val, n) ==
  LET s == m.sum + val * n
      c == m.count + n
  IN  [sum |-> s, count |-> c, avg |-> IF c = 0 THEN Zero ELSE Rat(s, c)]

-----------------------------------------------------------------------------
(* Data sources: finite ordered sequences of batches.  A batch is          *)
(* [n, loss, score]: the size of its first input element, the loss the     *)
(* model computes on it and the value the score callbacks return on it.    *)

Batches(sizes, losses, scores) ==
  [n : sizes, loss : losses, score : scores]

RECURSIVE SeqsUpTo(_, _)
SeqsUpTo(S, k) ==
  IF k = 0 THEN {<<>>}
  ELSE LET shorter == SeqsUpTo(S, k - 1)
       IN  shorter \cup {Append(s, x) : s \in {t \in shorter : Len(t) = k - 1}, x \in S}

DataSources == SeqsUpTo(Batches(BatchSizes, LossValues, ScoreValues), MaxBatches)

Ev(op, cb, arg) == [op |-> op, cb |-> cb, arg |-> arg]

-----------------------------------------------------------------------------
(* train() and validate().  A pass works on w = [model, ps]: the model and *)
(* the pass's locals ps = [losses, scores, batch_returns, i, log]; log is  *)
(* the ordered record of the calls made on the model, the optimizer and    *)
(* the callbacks.  The wall-clock meters (batch_time, data_time) are       *)
(* left out: they feed nothing but the epoch callbacks' display.           *)

\* the locals set up before the batch loop
NewPass(cb) ==
  [losses        |-> AverageMeter,
   scores        |-> [j \in 1..cb.score |-> AverageMeter],
   batch_returns |-> [j \in 1..cb.batch |-> <<>>],
   i             |-> 0,
   log           |-> <<>>]

\* a pass that weights every batch alike
SampleCount_PerBatch(b) == 1

\* data[0].size(0): the weight of a batch in the running averages
SampleCount(b) == b.n

\* y_pred = self.predict(data_var); loss = self.model.loss(y_pred, target_var)
Forward(w, b) ==
  [w EXCEPT !.ps.log = @ \o <<Ev("forward", 0, w.model.training), Ev("loss", 0, b.loss)>>,
            !.ps.losses = Update(@, b.loss, SampleCount(b))]

\* for callback, acc in zip(self.score_callbacks, scores): acc.update(callback(..), size)
ScoreCallbacks(w, b, cb) ==
  [w EXCEPT !.ps.log = @ \o [j \in 1..cb.score |-> Ev("score", j, b.score)],
            !.ps.scores = [j \in 1..cb.score |-> Update(@[j], b.score, SampleCount(b))]]

\* batch callbacks of which only the latest return value is kept
BatchCallbacks_KeepLast(w, b, cb, istest) ==
  [w EXCEPT !.ps.log = @ \o [j \in 1..cb.batch |-> Ev("on_batch", j, istest)],
            !.ps.batch_returns = [j \in 1..cb.batch |-> << <<j, w.ps.i, b.loss>> >>]]

\* batch_returns[i].append(callback.batch(y_pred, data, target, istest=...))
BatchCallbacks(w, b, cb, istest) ==
  [w EXCEPT !.ps.log = @ \o [j \in 1..cb.batch |-> Ev("on_batch", j, istest)],
            !.ps.batch_returns =
               [j \in 1..cb.batch |-> Append(@[j], <<j, w.ps.i, b.loss>>)]]

\* a batch loop that leaves the gradients of the previous batch in place
Backprop_Accumulating(w) ==
  [w EXCEPT !.ps.log = @ \o (IF w.ps.i = 0 THEN <<Ev("zero_grad", 0, 0)>> ELSE <<>>)
                         \o <<Ev("backward", 0, 0), Ev("step", 0, 0)>>,
            !.model.params = @ + 1]

\* self.optim.zero_grad(); loss.backward(); self.optim.step()
Backprop(w) ==
  [w EXCEPT !.ps.log = @ \o <<Ev("zero_grad", 0, 0), Ev("backward", 0, 0), Ev("step", 0, 0)>>,
            !.model.params = @ + 1]

NextBatch(w) == [w EXCEPT !.ps.i = @ + 1]

\* a batch loop body that updates the parameters before it calls the callbacks
TrainBatchBody_StepFirst(w, b, cb) ==
  NextBatch(BatchCallbacks(ScoreCallbacks(Backprop(Forward(w, b)), b, cb), b, cb, FALSE))

\* the body of train()'s batch loop
TrainBatchBody(w, b, cb) ==
  NextBatch(Backprop(BatchCallbacks(ScoreCallbacks(Forward(w, b), b, cb), b, cb, FALSE)))

\* the body of validate()'s batch loop
ValidBatchBody(w, b, cb) ==
  NextBatch(BatchCallbacks(ScoreCallbacks(Forward(w, b), b, cb), b, cb, TRUE))

\* after the batch loop: callback.epoch(batch_returns[i], istest), then the epoch
\* callbacks with (losses.avg, ..., scores_average, is_training)
PassEnd(w, cb, istest) ==
  [w EXCEPT !.ps.log = @
      \o [j \in 1..cb.batch |-> Ev("on_epoch", j, <<w.ps.batch_returns[j], istest>>)]
      \o [j \in 1..cb.epoch |->
            Ev("epoch_cb", j,
               <<w.ps.losses.avg, [k \in 1..cb.score |-> w.ps.scores[k].avg], ~istest>>)]]

\* a pass that leaves the model in the mode it finds it in
PassBegin_NoToggle(m, cb, istest) ==
  [model |-> m, ps |-> NewPass(cb)]

\* self.model.train() / self.model.eval(), and the pass's fresh locals
PassBegin(m, cb, istest) ==
  [model |-> [m EXCEPT !.training = ~istest], ps |-> NewPass(cb)]

RECURSIVE RunBatches(_, _, _, _)
RunBatches(w, d, cb, istest) ==
  IF w.ps.i = Len(d) THEN w
  ELSE RunBatches(IF istest THEN ValidBatchBody(w, d[w.ps.i + 1], cb)
                            ELSE TrainBatchBody(w, d[w.ps.i + 1], cb),
                  d, cb, istest)

\* a whole call of train() (istest = FALSE) or validate() (istest = TRUE) on the
\* batches d: the model afterwards and the returned (losses, scores)
RunPass(m, d, cb, istest) ==
  LET w == PassEnd(RunBatches(PassBegin(m, cb, istest), d, cb, istest), cb, istest)
  IN  [model |-> w.model, losses |-> w.ps.losses, scores |-> w.ps.scores, log |-> w.ps.log]

NoPass == NewPass([score |-> 0, batch |-> 0, epoch |-> 0])
NoRet == [losses |-> AverageMeter, scores |-> <<>>]

PassIdle ==
  /\ ppc = "idle"
  /\ data = <<>>
  /\ ps = NoPass
  /\ ret = NoRet

\* train(), lines 166-176
TrainBegin ==
  /\ ppc = "idle"
  /\ \E d \in DataSources :
       /\ model.params + Len(d) <= MaxSteps
       /\ data' = d
  /\ LET w == PassBegin(model, callbacks, FALSE)
     IN  model' = w.model /\ ps' = w.ps
  /\ ppc' = "train"
  /\ UNCHANGED <<callbacks, script, ret, loopVars>>

\* train(), lines 178-197: one iteration of the batch loop
TrainBatch ==
  /\ ppc = "train"
  /\ ps.i < Len(data)
  /\ LET w == TrainBatchBody([model |-> model, ps |-> ps], data[ps.i + 1], callbacks)
     IN  model' = w.model /\ ps' = w.ps
  /\ UNCHANGED <<callbacks, script, ppc, data, ret, loopVars>>

\* train(), lines 199-205
TrainEnd ==
  /\ ppc = "train"
  /\ ps.i = Len(data)
  /\ LET w == PassEnd([model |-> model, ps |-> ps], callbacks, FALSE)
     IN  /\ ps' = w.ps
         /\ ret' = [losses |-> w.ps.losses, scores |-> w.ps.scores]
  /\ ppc' = "trained"
  /\ UNCHANGED <<model, callbacks, script, data, loopVars>>

\* validate(), lines 217-225
ValidateBegin ==
  /\ ppc = "idle"
  /\ \E d \in DataSources : data' = d
  /\ LET w == PassBegin(model, callbacks, TRUE)
     IN  model' = w.model /\ ps' = w.ps
  /\ ppc' = "validate"
  /\ UNCHANGED <<callbacks, script, ret, loopVars>>

\* validate(), lines 228-243: one iteration of the batch loop
ValidateBatch ==
  /\ ppc = "validate"
  /\ ps.i < Len(data)
  /\ LET w == ValidBatchBody([model |-> model, ps |-> ps], data[ps.i + 1], callbacks)
     IN  model' = w.model /\ ps' = w.ps
  /\ UNCHANGED <<callbacks, script, ppc, data, ret, loopVars>>

\* validate(), lines 245-252
ValidateEnd ==
  /\ ppc = "validate"
  /\ ps.i = Len(data)
  /\ LET w == PassEnd([model |-> model, ps |-> ps], callbacks, TRUE)
     IN  /\ ps' = w.ps
         /\ ret' = [losses |-> w.ps.losses, scores |-> w.ps.scores]
  /\ ppc' = "validated"
  /\ UNCHANGED <<model, callbacks, script, data, loopVars>>

\* the caller takes the returned meters; the pass's locals go out of scope
PassReturn ==
  /\ ppc \in {"trained", "validated"}
  /\ ppc' = "idle"
  /\ data' = <<>>
  /\ ps' = NoPass
  /\ ret' = NoRet
  /\ UNCHANGED <<model, callbacks, script, loopVars>>

-----------------------------------------------------------------------------
(* The output directory.  A checkpoint artifact holds the pickled record   *)
(* {epoch, state_dict, best_prec1}; a .csv file holds text lines, one per  *)
(* table row.                                                              *)

NoCheckpoint == [exists |-> FALSE, epoch |-> 0, state_dict |-> 0, best_prec1 |-> Zero]
NoCsv == [exists |-> FALSE, lines |-> <<>>]

EmptyDir ==
  [model_best       |-> NoCheckpoint,
   model_last       |-> NoCheckpoint,
   checkpoint       |-> [e \in 0..(MaxEpochs - 1) |-> NoCheckpoint],
   loss_csv         |-> NoCsv,
   train_scores_csv |-> NoCsv,
   valid_scores_csv |-> NoCsv]

\* torch.save(state, path)
TorchSave(state) ==
  [exists |-> TRUE, epoch |-> state.epoch, state_dict |-> state.state_dict,
   best_prec1 |-> state.best_prec1]

\* torch.load(path)
TorchLoad(file) ==
  [epoch |-> file.epoch, state_dict |-> file.state_dict, best_prec1 |-> file.best_prec1]

\* save_checkpoint(state, save_last_checkpoints, save_all_checkpoints, is_best, path,
\* "checkpoint{epoch}.pth.tar"): the directory afterwards
save_checkpoint(dir, state, save_last_checkpoints, save_all_checkpoints, is_best, epoch) ==
  LET d1 == IF save_all_checkpoints
            THEN [dir EXCEPT !.checkpoint[epoch] = TorchSave(state)] ELSE dir
      d2 == IF save_last_checkpoints
            THEN [d1 EXCEPT !.model_last = TorchSave(state)] ELSE d1
  IN  IF is_best THEN [d2 EXCEPT !.model_best = TorchSave(state)] ELSE d2

\* the artifacts that call of save_checkpoint writes
written(save_last_checkpoints, save_all_checkpoints, is_best) ==
  (IF save_all_checkpoints THEN {"checkpoint"} ELSE {})
    \cup (IF save_last_checkpoints THEN {"model_last"} ELSE {})
    \cup (IF is_best THEN {"model_best"} ELSE {})

\* a load that hands back the stored epoch as it is
load_checkpoint_StoredEpoch(file) ==
  LET state == TorchLoad(file)
  IN  [dict |-> state.state_dict, best_prec1 |-> state.best_prec1, epoch |-> state.epoch]

\* load_checkpoint(path, filename): (dict, best_prec1, epoch)
load_checkpoint(file) ==
  LET state == TorchLoad(file)
  IN  [dict |-> state.state_dict, best_prec1 |-> state.best_prec1, epoch |-> state.epoch - 1]

(* numpy arrays of two dimensions: [none, cols, rows]; none stands for None *)

None == [none |-> TRUE, cols |-> 0, rows |-> <<>>]
Array(rows, cols) == [none |-> FALSE, cols |-> cols, rows |-> rows]

\* np.asarray([]).reshape(-1, cols)
EmptyArray(cols) == Array(<<>>, cols)

\* np.savetxt(path, a, delimiter=","): one text line per row
Savetxt(a) == [exists |-> TRUE, lines |-> a.rows]

RECURSIVE Flatten(_)
Flatten(lines) == IF lines = <<>> THEN <<>> ELSE Head(lines) \o Flatten(Tail(lines))

\* np.loadtxt(path, delimiter=","): the values in row-major order (loadtxt squeezes
\* the shape, the reshape that follows works on the values alone)
Loadtxt(file) == Flatten(file.lines)

\* a.reshape(r, c) on the flat values
Reshape(flat, r, c) ==
  Array([i \in 1..r |-> [j \in 1..c |-> flat[(i - 1) * c + j]]], c)

\* a.reshape(-1, c) is possible
CanReshapeCols(flat, c) == Len(flat) % c = 0
ReshapeCols(flat, c) == Reshape(flat, Len(flat) \div c, c)

\* a.reshape(r, -1) is possible: numpy refuses r = 0 and a size r does not divide
CanReshapeRows(flat, r) == r > 0 /\ Len(flat) % r = 0
ReshapeRows(flat, r) == Reshape(flat, r, Len(flat) \div r)

\* a[0:k, :]
Slice(a, k) ==
  Array(SubSeq(a.rows, 1, IF k < Len(a.rows) THEN k ELSE Len(a.rows)), a.cols)

\* a table that is started over with the new row
Concatenate_Replace(a, row) == Array(<<row>>, a.cols)

\* np.concatenate((a, row), axis=0) for a row of shape (1, Len(row))
CanConcatenate(a, row) == a.cols = Len(row)
Concatenate(a, row) == Array(Append(a.rows, row), a.cols)

-----------------------------------------------------------------------------
(* loop() *)

\* the data the loaders yield, and the losses the model computes, in a pass of loop()
TrainSources == {<<b>> : b \in Batches({1}, {1}, {1})}
ValidSources == {<<b>> : b \in Batches({1}, script.valid_losses, {1})}

\* the arguments of a call of loop(); one script keeps to one save_best / save_all
\* policy over its runs on an output directory
Scripts ==
  [save_best_checkpoint : BOOLEAN, save_all_checkpoints : BOOLEAN,
   valid_losses : {LossValues}]

Args ==
  [epochs_qty : 1..MaxEpochs,
   load_best_checkpoint : BOOLEAN, save_best_checkpoint : {script.save_best_checkpoint},
   load_last_checkpoint : BOOLEAN, save_last_checkpoint : BOOLEAN,
   save_all_checkpoints : {script.save_all_checkpoints}]

NoArgs ==
  [epochs_qty |-> 0,
   load_best_checkpoint |-> FALSE, save_best_checkpoint |-> FALSE,
   load_last_checkpoint |-> FALSE, save_last_checkpoint |-> FALSE,
   save_all_checkpoints |-> FALSE]

\* lines 306-310; epoch is the next value of range(epoch_start, epochs_qty)
NewLocals ==
  [best_prec1 |-> Inf, epoch_start |-> 0, epoch |-> 0,
   loss_plot_data |-> EmptyArray(2), train_plot_data |-> None, valid_plot_data |-> None,
   train_loss |-> AverageMeter, train_scores |-> <<>>,
   val_loss |-> AverageMeter, valid_scores |-> <<>>,
   is_best |-> FALSE]

InitModel == [training |-> TRUE, params |-> 0]

NewHist == [runs |-> 0, epochs_run |-> 0, resumed |-> -1, kills |-> 0,
            wrote |-> {}, restarted |-> FALSE]

\* no check of the resume flags
FlagsOk_Unchecked(args) == TRUE

\* the assert of line 315 passes
FlagsOk(args) == ~(args.load_best_checkpoint /\ args.load_last_checkpoint)

\* lines 317-318
ModelName(args) == IF args.load_best_checkpoint THEN "model_best" ELSE "model_last"

\* a resume that keeps every row read back
Truncate_Nothing(a, epoch_best) == a

\* loss_plot_data[0:epoch_best, :] and the score tables' [0:epoch_best, :]
Truncate(a, epoch_best) == Slice(a, epoch_best)

\* np.loadtxt(<scores file>).reshape(epoch_last, -1)[0:epoch_best, :], lines 330-331:
\* the error raised, or "" and the array
LoadScores(file, epoch_last, epoch_best) ==
  IF ~file.exists THEN [err |-> "IOError", a |-> None]
  ELSE IF ~CanReshapeRows(Loadtxt(file), epoch_last) THEN [err |-> "ValueError", a |-> None]
  ELSE [err |-> "", a |-> Truncate(ReshapeRows(Loadtxt(file), epoch_last), epoch_best)]

\* a resume that does not look whether the artifact is there
Exists_Unchecked(file) == TRUE

\* os.path.exists(os.path.join(output_path, model_name)), line 319
Exists(file) == file.exists

\* lines 316-333: the error raised (or ""), the model and the locals afterwards
Resume(m, dir, args, l, cb) ==
  LET file == IF ModelName(args) = "model_best" THEN dir.model_best ELSE dir.model_last
      ck   == load_checkpoint(file)
      m1   == [m EXCEPT !.params = ck.dict]
      flat == Loadtxt(dir.loss_csv)
      full == ReshapeCols(flat, 2)
      epoch_last == Len(full.rows)
      l1   == [l EXCEPT !.best_prec1 = ck.best_prec1,
                        !.epoch_start = ck.epoch,
                        !.epoch = ck.epoch,
                        !.loss_plot_data = Truncate(full, ck.epoch)]
      tr   == LoadScores(dir.train_scores_csv, epoch_last, ck.epoch)
      va   == LoadScores(dir.valid_scores_csv, epoch_last, ck.epoch)
  IN  IF ~Exists(file) THEN [err |-> "RuntimeError", model |-> m, loc |-> l, r |-> -1]
      ELSE IF ~dir.loss_csv.exists THEN [err |-> "IOError", model |-> m1, loc |-> l, r |-> ck.epoch]
      ELSE IF ~CanReshapeCols(flat, 2)
        THEN [err |-> "ValueError", model |-> m1, loc |-> l, r |-> ck.epoch]
      ELSE IF cb.score = 0 THEN [err |-> "", model |-> m1, loc |-> l1, r |-> ck.epoch]
      ELSE IF tr.err # "" THEN [err |-> tr.err, model |-> m1, loc |-> l1, r |-> ck.epoch]
      ELSE IF va.err # "" THEN [err |-> va.err, model |-> m1, loc |-> l1, r |-> ck.epoch]
      ELSE [err |-> "", model |-> m1,
            loc |-> [l1 EXCEPT !.train_plot_data = tr.a, !.valid_plot_data = va.a],
            r |-> ck.epoch]

\* the call ends (returns, raises or is terminated): its locals are gone
Ends(how) ==
  /\ pc' = "idle"
  /\ result' = how
  /\ loc' = NewLocals

\* the process ends after epochs were run: of the run, only the output directory
\* (and how it ended) is left
ProcessEnds(how) ==
  /\ Ends(how)
  /\ cfg' = NoArgs
  /\ model' = InitModel
  /\ hist' = [hist EXCEPT !.epochs_run = 0, !.resumed = -1, !.wrote = {}]


\* an output directory that is set up anew, whatever it held
MakeDirs_Fresh(dir) == EmptyDir

\* lines 312-313: os.makedirs(output_path) when the directory is not there; a
\* directory that is there is left as it is
MakeDirs(dir) == dir

\* loop(...), lines 306-333: up to the first evaluation of the for statement.  Each
\* run is a process of its own: it constructs model and TrainLoop, then calls loop().
Loop_Enter ==
  /\ pc = "idle"
  /\ ppc = "idle"
  /\ hist.runs < MaxRuns
  /\ \E args \in Args :
       LET got == Resume(InitModel, MakeDirs(fs), args, NewLocals, callbacks)
           resuming == args.load_best_checkpoint \/ args.load_last_checkpoint
       IN  /\ cfg' = args
           /\ IF ~FlagsOk(args)
              THEN /\ Ends("AssertionError")
                   /\ model' = InitModel
                   /\ hist' = [hist EXCEPT !.runs = @ + 1, !.epochs_run = 0,
                                           !.resumed = -1, !.wrote = {}]
              ELSE IF resuming /\ got.err # ""
              THEN /\ Ends(got.err)
                   /\ model' = got.model
                   /\ hist' = [hist EXCEPT !.runs = @ + 1, !.epochs_run = 0,
                                           !.resumed = got.r, !.wrote = {}]
              ELSE /\ pc' = "for"
                   /\ result' = "running"
                   /\ loc' = IF resuming THEN got.loc ELSE NewLocals
                   /\ model' = IF resuming THEN got.model ELSE InitModel
                   /\ hist' = [hist EXCEPT !.runs = @ + 1, !.epochs_run = 0,
                                           !.resumed = IF resuming THEN got.r ELSE -1,
                                           !.wrote = {},
                                           !.restarted =
                                              @ \/ (~resuming /\ hist.runs > 0)]
  /\ fs' = MakeDirs(fs)
  /\ UNCHANGED <<callbacks, script, passVars>>

\* line 335 with an epoch left, and line 339: train_loss, train_scores = self.train()
Loop_Train ==
  /\ pc = "for"
  /\ loc.epoch < cfg.epochs_qty
  /\ \E d \in TrainSources :
       LET got == RunPass(model, d, callbacks, FALSE)
       IN  /\ model' = got.model
           /\ loc' = [loc EXCEPT !.train_loss = got.losses, !.train_scores = got.scores]
  /\ pc' = "validate"
  /\ hist' = [hist EXCEPT !.epochs_run = @ + 1]
  /\ UNCHANGED <<callbacks, script, fs, cfg, result, passVars>>

\* line 335 with no epoch left: loop() returns
Loop_Return ==
  /\ pc = "for"
  /\ loc.epoch >= cfg.epochs_qty
  /\ ProcessEnds("returned")
  /\ UNCHANGED <<callbacks, script, fs, passVars>>

\* line 340: val_loss, valid_scores = self.validate()
Loop_Validate ==
  /\ pc = "validate"
  /\ \E d \in ValidSources :
       LET got == RunPass(model, d, callbacks, TRUE)
       IN  /\ model' = got.model
           /\ loc' = [loc EXCEPT !.val_loss = got.losses, !.valid_scores = got.scores]
  /\ pc' = "checkpoint"
  /\ UNCHANGED <<callbacks, script, fs, cfg, result, hist, passVars>>

\* a comparison that counts a tie as a new best
IsBest_OrEqual(validation_loss_average, best_prec1) ==
  ~Less(best_prec1, validation_loss_average)

\* line 347
IsBest(validation_loss_average, best_prec1) == Less(validation_loss_average, best_prec1)

\* the is_best argument passed to save_checkpoint, line 353
WriteBest(args, is_best) == is_best

\* a record that stores the index of the epoch just completed
StoredEpoch_Index(epoch) == epoch

\* the 'epoch' stored in the record, line 350
StoredEpoch(epoch) == epoch + 1

\* lines 342-353: the new history row, is_best, best_prec1 and save_checkpoint
Loop_SaveCheckpoint ==
  /\ pc = "checkpoint"
  /\ LET loss_tmp   == <<loc.train_loss.avg, loc.val_loss.avg>>
         is_best    == IsBest(loc.val_loss.avg, loc.best_prec1)
         best_prec1 == Min(loc.val_loss.avg, loc.best_prec1)
         state      == [epoch |-> StoredEpoch(loc.epoch), state_dict |-> model.params,
                        best_prec1 |-> best_prec1]
     IN  /\ loc' = [loc EXCEPT !.loss_plot_data = Concatenate(@, loss_tmp),
                               !.is_best = is_best,
                               !.best_prec1 = best_prec1]
         /\ fs' = save_checkpoint(fs, state, cfg.save_last_checkpoint,
                                  cfg.save_all_checkpoints, WriteBest(cfg, is_best),
                                  loc.epoch)
         /\ hist' = [hist EXCEPT !.wrote = written(cfg.save_last_checkpoint,
                                                   cfg.save_all_checkpoints,
                                                   WriteBest(cfg, is_best))]
  /\ pc' = "loss_csv"
  /\ UNCHANGED <<model, callbacks, script, cfg, result, passVars>>

\* a for statement that hands out the same index again
EpochDone_Again == loc

\* the for statement takes the next value of the range
EpochDone == [loc EXCEPT !.epoch = @ + 1]

\* line 354: np.savetxt(loss.csv, loss_plot_data); line 356 when no score callback
Loop_SaveLoss ==
  /\ pc = "loss_csv"
  /\ fs' = [fs EXCEPT !.loss_csv = Savetxt(loc.loss_plot_data)]
  /\ IF callbacks.score > 0
     THEN pc' = "scores" /\ UNCHANGED loc
     ELSE pc' = "for" /\ loc' = EpochDone
  /\ hist' = [hist EXCEPT !.wrote = {}]
  /\ UNCHANGED <<model, callbacks, script, cfg, result, passVars>>

\* [score.avg for score in scores]
Averages(scores) == [j \in 1..Len(scores) |-> scores[j].avg]

\* lines 356-365: allocate the score tables on first use, append both rows, write
\* train_scores.csv
Loop_SaveTrainScores ==
  /\ pc = "scores"
  /\ LET alloc == loc.train_plot_data.none \/ loc.valid_plot_data.none
         tp == IF alloc THEN EmptyArray(Len(loc.train_scores)) ELSE loc.train_plot_data
         vp == IF alloc THEN EmptyArray(Len(loc.valid_scores)) ELSE loc.valid_plot_data
         trow == Averages(loc.train_scores)
         vrow == Averages(loc.valid_scores)
     IN  IF CanConcatenate(tp, trow) /\ CanConcatenate(vp, vrow)
         THEN /\ loc' = [loc EXCEPT !.train_plot_data = Concatenate(tp, trow),
                                    !.valid_plot_data = Concatenate(vp, vrow)]
              /\ fs' = [fs EXCEPT !.train_scores_csv = Savetxt(Concatenate(tp, trow))]
              /\ pc' = "valid_scores"
              /\ UNCHANGED <<cfg, result>>
         ELSE /\ Ends("ValueError")
              /\ UNCHANGED <<fs, cfg>>
  /\ UNCHANGED <<model, callbacks, script, hist, passVars>>

\* line 366: np.savetxt(valid_scores.csv, valid_plot_data)
Loop_SaveValidScores ==
  /\ pc = "valid_scores"
  /\ fs' = [fs EXCEPT !.valid_scores_csv = Savetxt(loc.valid_plot_data)]
  /\ loc' = EpochDone
  /\ pc' = "for"
  /\ UNCHANGED <<model, callbacks, script, cfg, result, hist, passVars>>

\* the process is terminated while loop() runs; the next call is made by a new
\* process on a newly constructed TrainLoop
Kill ==
  /\ pc # "idle"
  /\ pc # "for" => hist.kills < MaxKills
  /\ Ends("killed")
  /\ cfg' = NoArgs
  /\ model' = InitModel
  /\ hist' = [hist EXCEPT !.kills = IF pc = "for" THEN @ ELSE @ + 1,
                          !.epochs_run = 0, !.resumed = -1, !.wrote = {}]
  /\ UNCHANGED <<callbacks, script, fs, passVars>>

-----------------------------------------------------------------------------
(* Specifications *)

LoopIdle ==
  /\ fs = EmptyDir
  /\ pc = "idle"
  /\ cfg = NoArgs
  /\ loc = NewLocals
  /\ result = "none"
  /\ hist = NewHist

\* a TrainLoop right after construction, on an empty output directory
Init ==
  /\ model = InitModel
  /\ callbacks \in [score : 0..MaxScoreCallbacks, batch : {1}, epoch : {1}]
  /\ script \in Scripts
  /\ LoopIdle
  /\ PassIdle

Next ==
  \/ Loop_Enter
  \/ Loop_Train
  \/ Loop_Return
  \/ Loop_Validate
  \/ Loop_SaveCheckpoint
  \/ Loop_SaveLoss
  \/ Loop_SaveTrainScores
  \/ Loop_SaveValidScores
  \/ Kill

Spec == Init /\ [][Next]_vars

InitPass ==
  /\ model = InitModel
  /\ callbacks \in [score : 0..MaxScoreCallbacks, batch : 0..MaxBatchCallbacks, epoch : 0..1]
  /\ script \in {[save_best_checkpoint |-> FALSE, save_all_checkpoints |-> FALSE,
                   valid_losses |-> LossValues]}
  /\ LoopIdle
  /\ PassIdle

NextPass ==
  \/ TrainBegin
  \/ TrainBatch
  \/ TrainEnd
  \/ ValidateBegin
  \/ ValidateBatch
  \/ ValidateEnd
  \/ PassReturn

SpecPass == InitPass /\ [][NextPass]_vars

\* a script that saves neither all nor best, on validation data giving three
\* different losses: runs on one output directory whose best metric can move both ways
InitBest ==
  /\ model = InitModel
  /\ callbacks \in [score : {MaxScoreCallbacks}, batch : {1}, epoch : {1}]
  /\ script \in {[save_best_checkpoint |-> FALSE, save_all_checkpoints |-> FALSE,
                   valid_losses |-> WideLossValues]}
  /\ LoopIdle
  /\ PassIdle

SpecBest == InitBest /\ [][Next]_vars

-----------------------------------------------------------------------------
(* Properties *)

Count(log, op) == Cardinality({i \in 1..Len(log) : log[i].op = op})

\* the first r of the lines (all of them when there are fewer)
FirstRows(lines, r) == [i \in 1..(IF r < Len(lines) THEN r ELSE Len(lines)) |-> lines[i]]

\* the artifact a resuming call reads
Requested(dir, args) == IF args.load_best_checkpoint THEN dir.model_best ELSE dir.model_last

ExactlyOneLoad(args) ==
  (args.load_best_checkpoint \/ args.load_last_checkpoint)
    /\ ~(args.load_best_checkpoint /\ args.load_last_checkpoint)

RECURSIVE SumN(_)
SumN(d) == IF d = <<>> THEN 0 ELSE Head(d).n + SumN(Tail(d))

RECURSIVE SumNLoss(_)
SumNLoss(d) == IF d = <<>> THEN 0 ELSE Head(d).n * Head(d).loss + SumNLoss(Tail(d))

RECURSIVE SumNScore(_)
SumNScore(d) == IF d = <<>> THEN 0 ELSE Head(d).n * Head(d).score + SumNScore(Tail(d))

\* the float q is num / den, and 0 when den = 0
IsRatio(q, num, den) ==
  IF den = 0 THEN q.n = 0 /\ q.d = 1 ELSE q.d > 0 /\ q.n * den = num * q.d

\* C1: whenever a run finishes persisting epoch index e (the for statement is reached
\* again, the next index being e + 1), and no run so far was terminated inside an
\* epoch, the loss history in memory and loss.csv both have exactly e + 1 rows.
C1_RowCountIsEpochs ==
  (pc = "for" /\ hist.epochs_run > 0 /\ hist.kills = 0)
    => /\ Len(loc.loss_plot_data.rows) = loc.epoch
       /\ fs.loss_csv.exists
       /\ Len(fs.loss_csv.lines) = loc.epoch

\* C2: in a run resumed at epoch index r, the history read back is the first r rows
\* of loss.csv before any row is appended, and once k epochs were begun the history
\* has at most r + k rows.
C2_ResumeTruncates ==
  (pc # "idle" /\ hist.resumed >= 0)
    => /\ Len(loc.loss_plot_data.rows) <= hist.resumed + hist.epochs_run
       /\ (pc = "for" /\ hist.epochs_run = 0)
            => loc.loss_plot_data.rows = FirstRows(fs.loss_csv.lines, hist.resumed)

C2_Witness ==
  /\ pc = "for"
  /\ hist.epochs_run = 0
  /\ hist.resumed >= 1
  /\ Len(fs.loss_csv.lines) > hist.resumed
  /\ Len(loc.loss_plot_data.rows) = hist.resumed

\* C3: every artifact save_checkpoint has just written with the record
\* {epoch: n, state_dict: s, best_prec1: b} loads back as (s, b, n - 1); and what a
\* resuming run holds after its load is (s, b, n - 1) of the artifact it read.
C3_CheckpointRoundTrip ==
  /\ pc = "loss_csv" =>
       LET n == loc.epoch + 1
           s == model.params
           b == loc.best_prec1
           RoundTrip(file) ==
             /\ file.exists
             /\ load_checkpoint(file) = [dict |-> s, best_prec1 |-> b, epoch |-> n - 1]
       IN  /\ "model_last" \in hist.wrote => RoundTrip(fs.model_last)
           /\ "model_best" \in hist.wrote => RoundTrip(fs.model_best)
           /\ "checkpoint" \in hist.wrote => RoundTrip(fs.checkpoint[loc.epoch])
  /\ (pc = "for" /\ hist.resumed >= 0 /\ hist.epochs_run = 0) =>
       /\ model.params = Requested(fs, cfg).state_dict
       /\ loc.best_prec1 = Requested(fs, cfg).best_prec1
       /\ loc.epoch_start = Requested(fs, cfg).epoch - 1

C3_Witness ==
  /\ pc = "loss_csv"
  /\ "model_last" \in hist.wrote
  /\ fs.model_last.epoch = 3
  /\ load_checkpoint(fs.model_last).epoch = 2

\* C4: an epoch rewrites model_best only if its validation loss average is strictly
\* less than best_prec1 so far; a loss equal to it rewrites nothing; afterwards
\* best_prec1 is the smaller of the two.  best_prec1 starts at +infinity in a fresh
\* run and at the loaded value in a resumed one.
C4_StrictTieBreak ==
  [][ /\ (pc = "checkpoint" /\ pc' = "loss_csv") =>
           LET val  == loc.val_loss.avg
               best == loc.best_prec1
           IN  /\ "model_best" \in hist'.wrote => Less(val, best)
               /\ val = best => ("model_best" \notin hist'.wrote
                                   /\ fs'.model_best = fs.model_best)
               /\ loc'.best_prec1 = (IF Less(val, best) THEN val ELSE best)
      /\ (pc = "idle" /\ pc' = "for") =>
           loc'.best_prec1 = (IF ExactlyOneLoad(cfg')
                              THEN Requested(fs, cfg').best_prec1 ELSE Inf)
    ]_vars

C4_Witness ==
  /\ pc = "loss_csv"
  /\ loc.val_loss.avg = loc.best_prec1
  /\ ~loc.is_best
  /\ fs.model_best.exists
  /\ "model_best" \notin hist.wrote

\* C5: save_checkpoint writes the numbered checkpoint only if save_all_checkpoints,
\* model_last only if save_last_checkpoint, and model_best only if
\* save_best_checkpoint.
C5_SavePoliciesGate ==
  pc = "loss_csv" =>
    /\ "checkpoint" \in hist.wrote => cfg.save_all_checkpoints
    /\ "model_last" \in hist.wrote => cfg.save_last_checkpoint
    /\ "model_best" \in hist.wrote => cfg.save_best_checkpoint

\* C6: a call with load_best_checkpoint and load_last_checkpoint both true ends in
\* the assertion error with no checkpoint loaded and no epoch begun, whatever the
\* directory holds; no run is ever under way with both flags.
C6_ExclusiveResumeFlags ==
  (cfg.load_best_checkpoint /\ cfg.load_last_checkpoint)
    => /\ pc = "idle"
       /\ result = "AssertionError"
       /\ hist.resumed = -1
       /\ hist.epochs_run = 0
       /\ model = InitModel

C6_Witness ==
  /\ result = "AssertionError"
  /\ cfg.load_best_checkpoint /\ cfg.load_last_checkpoint
  /\ fs.model_best.exists
  /\ fs.model_last.exists

\* C7: a call with exactly one resume flag whose artifact is absent ends in the
\* RuntimeError with no epoch begun and the model parameters as constructed; a run
\* under way with one resume flag has found its artifact.
C7_MissingCheckpoint ==
  (ExactlyOneLoad(cfg) /\ ~Requested(fs, cfg).exists)
    => /\ pc = "idle"
       /\ result = "RuntimeError"
       /\ hist.epochs_run = 0
       /\ hist.resumed = -1
       /\ model = InitModel

C7_Witness ==
  /\ result = "RuntimeError"
  /\ cfg.load_last_checkpoint
  /\ ~fs.model_last.exists
  /\ fs.model_best.exists

\* a later call that resumes from model_last
LoadLast == [NoArgs EXCEPT !.epochs_qty = MaxEpochs, !.load_last_checkpoint = TRUE]

\* C8: at every step of a run with save_last_checkpoint, once model_last exists, a
\* process started after a failure at that step can resume from model_last: the
\* checkpoint and the histories load without error.
C8_ResumableAtEveryStep ==
  (pc # "idle" /\ cfg.save_last_checkpoint /\ fs.model_last.exists)
    => Resume(InitModel, fs, LoadLast, NewLocals, callbacks).err = ""

\* C9: while and after train() runs, zero_grad, backward and step were each called
\* once per batch done, every backward directly after a zero_grad and directly
\* before a step; validate() calls none of the three.
C9_GradientDiscipline ==
  /\ ppc \in {"train", "trained"} =>
       /\ Count(ps.log, "zero_grad") = ps.i
       /\ Count(ps.log, "backward") = ps.i
       /\ Count(ps.log, "step") = ps.i
       /\ \A i \in 1..Len(ps.log) :
            ps.log[i].op = "backward" =>
              /\ i > 1 /\ ps.log[i - 1].op = "zero_grad"
              /\ i < Len(ps.log) /\ ps.log[i + 1].op = "step"
  /\ ppc = "trained" => ps.i = Len(data)
  /\ ppc \in {"validate", "validated"} =>
       /\ Count(ps.log, "zero_grad") = 0
       /\ Count(ps.log, "backward") = 0
       /\ Count(ps.log, "step") = 0

C9_Witness ==
  /\ ppc = "trained"
  /\ Len(data) = 2
  /\ Count(ps.log, "zero_grad") = 2
  /\ Count(ps.log, "step") = 2

\* C10: the loss average and every score average a pass returns, and hands to the
\* epoch callbacks, is sum(n_i * v_i) / sum(n_i) over its batches, and 0 when the
\* pass had no batch.
C10_SampleWeightedAverages ==
  ppc \in {"trained", "validated"} =>
    /\ IsRatio(ret.losses.avg, SumNLoss(data), SumN(data))
    /\ \A j \in 1..callbacks.score :
         IsRatio(ret.scores[j].avg, SumNScore(data), SumN(data))
    /\ \A i \in 1..Len(ps.log) :
         ps.log[i].op = "epoch_cb" =>
           /\ IsRatio(ps.log[i].arg[1], SumNLoss(data), SumN(data))
           /\ \A j \in 1..callbacks.score :
                IsRatio(ps.log[i].arg[2][j], SumNScore(data), SumN(data))

C10_Witness ==
  /\ ppc = "trained"
  /\ callbacks.score = 1
  /\ callbacks.epoch = 1
  /\ Len(data) = 2
  /\ data[1].n = 2 /\ data[1].score = 10
  /\ data[2].n = 3 /\ data[2].score = 20
  /\ ret.scores[1].avg = [n |-> 16, d |-> 1]
  /\ ps.log[Len(ps.log)].arg[2][1] = [n |-> 16, d |-> 1]

\* the modes the model was in at the forward passes of a call log
ForwardModes(log) == {log[i].arg : i \in {k \in 1..Len(log) : log[k].op = "forward"}}

\* C11: in every epoch of loop() the training pass makes each of its forward passes
\* with the model in train mode and leaves it in train mode, and the validation pass
\* makes each of its forward passes in eval mode and leaves it in eval mode; the
\* training pass of a later epoch starts from the eval mode the validation left.
C11_ModeToggling ==
  [][ /\ (pc = "for" /\ hist.epochs_run > 0) => ~model.training
      /\ (pc = "for" /\ pc' = "validate") =>
           /\ model'.training
           /\ \A d \in TrainSources :
                ForwardModes(RunPass(model, d, callbacks, FALSE).log) = {TRUE}
      /\ (pc = "validate" /\ pc' = "checkpoint") =>
           /\ model.training
           /\ ~model'.training
           /\ \A d \in ValidSources :
                ForwardModes(RunPass(model, d, callbacks, TRUE).log) = {FALSE}
    ]_vars

C11_Witness ==
  /\ pc = "validate"
  /\ hist.epochs_run = 2
  /\ model.training

\* the statements of an epoch in the order loop() executes them
Successors(at) ==
  CASE at = "idle"         -> {"for"}
    [] at = "for"          -> {"validate"}
    [] at = "validate"     -> {"checkpoint"}
    [] at = "checkpoint"   -> {"loss_csv"}
    [] at = "loss_csv"     -> {"scores", "for"}
    [] at = "scores"       -> {"valid_scores"}
    [] at = "valid_scores" -> {"for"}

\* the epoch index in hand after k training passes were begun in a run that started
\* at index start
IndexAfter(start, k, at) == start + k - (IF at = "for" THEN 0 ELSE 1)

\* the statements of the current epoch still to execute, counting the for statement
Rank(at) ==
  CASE at = "for"          -> 6
    [] at = "validate"     -> 5
    [] at = "checkpoint"   -> 4
    [] at = "loss_csv"     -> 3
    [] at = "scores"       -> 2
    [] at = "valid_scores" -> 1
    [] at = "idle"         -> 0

\* a bound on the statements the call under way has still to execute
Remaining(at, l, args) ==
  (IF l.epoch < args.epochs_qty THEN args.epochs_qty - l.epoch ELSE 0) * 7 + Rank(at)

\* C12: a run executes the epoch indices epoch_start, epoch_start + 1, ... below
\* epochs_qty in ascending order, each once; each epoch is the training pass, the
\* validation pass, then the writes, in that order; the call returns exactly when
\* the index reaches epochs_qty, and with epoch_start >= epochs_qty it returns with
\* no pass run and the directory as it was.  The call terminates: every statement
\* executed leads to the statement that follows it in the code and lowers the bound
\* Remaining, which is never negative.
C12_EpochSequencing ==
  [][ /\ pc # "idle" =>
           /\ loc.epoch = IndexAfter(loc.epoch_start, hist.epochs_run, pc)
           /\ (pc # "for" => loc.epoch < cfg.epochs_qty)
           /\ (pc' # "idle" => pc' \in Successors(pc))
           /\ Remaining(pc, loc, cfg) >= 0
           /\ (pc' # "idle" => Remaining(pc', loc', cfg') < Remaining(pc, loc, cfg))
      /\ (pc = "for" /\ pc' = "validate") => hist'.epochs_run = hist.epochs_run + 1
      /\ (pc # "idle" /\ pc' # "idle") => hist'.epochs_run >= hist.epochs_run
      /\ (pc = "for" /\ result' = "returned") =>
           /\ loc.epoch >= cfg.epochs_qty
           /\ hist.epochs_run = (IF loc.epoch_start < cfg.epochs_qty
                                 THEN cfg.epochs_qty - loc.epoch_start ELSE 0)
      /\ (pc = "for" /\ loc.epoch_start >= cfg.epochs_qty) =>
           /\ hist.epochs_run = 0
           /\ pc' = "idle"
           /\ fs' = fs
    ]_vars

C12_Witness ==
  /\ pc = "for"
  /\ loc.epoch_start = 1
  /\ hist.epochs_run = 2
  /\ loc.epoch = cfg.epochs_qty

\* C13: a resuming call goes on to its epochs only if the loaded checkpoint and
\* loss.csv agree: the history holds at least the rows of the epochs before the
\* index the checkpoint resumes at (the least any reading of "agree" asks for);
\* otherwise the call fails.  No run was terminated inside an epoch.
C13_ResumeConsistencyCheck ==
  (pc = "for" /\ hist.resumed >= 0 /\ hist.epochs_run = 0 /\ hist.kills = 0)
    => Len(fs.loss_csv.lines) >= load_checkpoint(Requested(fs, cfg)).epoch

\* how many of the calls before position i of a call log were calls of op
CountBefore(log, i, op) == Cardinality({k \in 1..(i - 1) : log[k].op = op})

\* the calls train() makes for one batch, in order
BatchOps(cb) ==
  <<"forward", "loss">> \o [j \in 1..cb.score |-> "score"]
     \o [j \in 1..cb.batch |-> "on_batch"] \o <<"zero_grad", "backward", "step">>

\* C14 as claimed: in train() every score callback and every on_batch of a batch is
\* called after that batch's optimizer step, i.e. as many steps as forward passes
\* precede it.
C14_CallbacksAfterStep ==
  ppc \in {"train", "trained"} =>
    \A i \in 1..Len(ps.log) :
      ps.log[i].op \in {"score", "on_batch"} =>
        CountBefore(ps.log, i, "step") = CountBefore(ps.log, i, "forward")

\* C14 as amended: for each training batch the calls are forward, loss, the score
\* callbacks, the batch callbacks' on_batch, then zero_grad, backward, step; every
\* callback of a batch is called before that batch's optimizer step.
C14_CallbacksBeforeStep ==
  ppc \in {"train", "trained"} =>
    LET ops == BatchOps(callbacks)
    IN  /\ \A i \in 1..(ps.i * Len(ops)) : ps.log[i].op = ops[((i - 1) % Len(ops)) + 1]
        /\ Len(ps.log) >= ps.i * Len(ops)
        /\ \A i \in 1..Len(ps.log) :
             ps.log[i].op \in {"score", "on_batch"} =>
               CountBefore(ps.log, i, "step") = CountBefore(ps.log, i, "forward") - 1

C14_Witness ==
  /\ ppc = "trained"
  /\ Len(data) = 2
  /\ callbacks.score = 1
  /\ callbacks.batch = 1
  /\ ps.log[3].op = "score"
  /\ ps.log[4].op = "on_batch"
  /\ ps.log[7].op = "step"

\* what batch callback j returns on the batches of d, in data-source order
Returns(j, d) == [i \in 1..Len(d) |-> <<j, i - 1, d[i].loss>>]

\* C15: while the batches of a pass are processed no on_epoch and no epoch callback
\* is called; when the pass ends its last calls are on_epoch of every batch callback,
\* once each, with the list of that callback's own returns on the batches of this
\* pass (one per batch, in order) and the pass's is_eval flag, followed by every
\* epoch callback, once each, with is_training = not is_eval.
C15_CollectThenFlush ==
  /\ ppc \in {"train", "validate"} =>
       /\ Count(ps.log, "on_epoch") = 0
       /\ Count(ps.log, "epoch_cb") = 0
       /\ \A j \in 1..callbacks.batch : Len(ps.batch_returns[j]) = ps.i
  /\ ppc \in {"trained", "validated"} =>
       LET istest == ppc = "validated"
           nb == callbacks.batch
           ne == callbacks.epoch
           base == Len(ps.log) - nb - ne
       IN  /\ base >= 0
           /\ Count(ps.log, "on_epoch") = nb
           /\ Count(ps.log, "epoch_cb") = ne
           /\ Count(ps.log, "on_batch") = nb * Len(data)
           /\ \A j \in 1..nb :
                ps.log[base + j] = Ev("on_epoch", j, <<Returns(j, data), istest>>)
           /\ \A j \in 1..ne :
                /\ ps.log[base + nb + j].op = "epoch_cb"
                /\ ps.log[base + nb + j].cb = j
                /\ ps.log[base + nb + j].arg[3] = ~istest
           /\ \A i \in 1..Len(ps.log) :
                ps.log[i].op = "on_batch" => ps.log[i].arg = istest

C15_Witness ==
  /\ ppc = "validated"
  /\ model.params > 0
  /\ callbacks.batch = 2
  /\ callbacks.epoch = 1
  /\ Len(data) = 2
  /\ data[1].loss # data[2].loss
  /\ ps.log[Len(ps.log) - 1].op = "on_epoch"
  /\ Len(ps.log[Len(ps.log) - 1].arg[1]) = 2

\* the checkpoint artifacts of a directory
Artifacts(dir) == <<dir.model_best, dir.model_last, dir.checkpoint>>

\* the history files of a directory
Histories(dir) == <<dir.loss_csv, dir.train_scores_csv, dir.valid_scores_csv>>

\* C16: every artifact save_checkpoint writes at the end of epoch index e holds the
\* same record: epoch e + 1, the model parameters of that moment, and a best metric
\* that is the smaller of epoch e's validation loss and the best before; every
\* numbered artifact checkpoint<N> that exists stores epoch N + 1; the record is
\* written while the history files still are as before the epoch, and the history
\* files are written afterwards without touching the artifacts.
C16_CheckpointRecord ==
  [][ /\ \A N \in 0..(MaxEpochs - 1) :
           fs'.checkpoint[N].exists => fs'.checkpoint[N].epoch = N + 1
      /\ (pc = "checkpoint" /\ pc' = "loss_csv") =>
           LET e   == loc.epoch
               val == loc.val_loss.avg
               Holds(file) ==
                 /\ file.exists
                 /\ file.epoch = e + 1
                 /\ file.state_dict = model.params
                 /\ file.best_prec1 \in {val, loc.best_prec1}
                 /\ ~Less(val, file.best_prec1)
                 /\ ~Less(loc.best_prec1, file.best_prec1)
           IN  /\ IF "checkpoint" \in hist'.wrote THEN Holds(fs'.checkpoint[e])
                  ELSE fs'.checkpoint[e] = fs.checkpoint[e]
               /\ IF "model_last" \in hist'.wrote THEN Holds(fs'.model_last)
                  ELSE fs'.model_last = fs.model_last
               /\ IF "model_best" \in hist'.wrote THEN Holds(fs'.model_best)
                  ELSE fs'.model_best = fs.model_best
               /\ \A N \in 0..(MaxEpochs - 1) : N # e => fs'.checkpoint[N] = fs.checkpoint[N]
               /\ Histories(fs') = Histories(fs)
      /\ (pc \in {"loss_csv", "scores", "valid_scores"} /\ pc' # "idle") =>
           Artifacts(fs') = Artifacts(fs)
      /\ (pc = "loss_csv" /\ pc' # "idle") =>
           /\ fs'.loss_csv.lines # <<>>
           /\ fs'.loss_csv.lines[Len(fs'.loss_csv.lines)]
                = <<loc.train_loss.avg, loc.val_loss.avg>>
    ]_vars

C16_Witness ==
  /\ pc = "loss_csv"
  /\ hist.wrote = {"checkpoint", "model_last", "model_best"}
  /\ loc.epoch = 1
  /\ fs.checkpoint[1].epoch = 2
  /\ fs.model_last = fs.checkpoint[1]
  /\ fs.model_best = fs.checkpoint[1]
  /\ Len(fs.loss_csv.lines) = 1

\* all but the last element
Front(s) == SubSeq(s, 1, Len(s) - 1)

\* the file written holds what was held before, unchanged, and one new last row:
\* before is the file of the previous epoch of this run, or the first r rows of the
\* file a run resumed at index r found, or nothing in a run that did not resume
AppendsOneRow(before, after, row) ==
  /\ after.exists
  /\ after.lines # <<>>
  /\ after.lines[Len(after.lines)] = row
  /\ Front(after.lines) =
       (IF hist.epochs_run >= 2 THEN before.lines
        ELSE IF hist.resumed >= 0 THEN FirstRows(before.lines, hist.resumed)
        ELSE <<>>)

C20_ConfigErrorsTouchNothing ==
  [][ (pc = "idle" /\ hist'.runs = hist.runs + 1
         /\ (~FlagsOk(cfg') \/ (ExactlyOneLoad(cfg') /\ ~Requested(fs, cfg').exists)))
        => /\ result' \in {"AssertionError", "RuntimeError"}
           /\ pc' = "idle"
           /\ fs' = fs
    ]_vars

C20_Witness ==
  /\ result = "RuntimeError"
  /\ cfg.load_last_checkpoint
  /\ ~fs.model_last.exists
  /\ fs.model_best.exists
  /\ Len(fs.loss_csv.lines) = 2

\* C18: a run resumed from model_last starts at the first epoch index the loaded
\* record has not completed (its epoch field) with the parameters of that many
\* training passes, a run that loaded a record of epochs_qty completed epochs
\* executes no further epoch, and the record a resumed run stores in model_last has
\* an epoch field equal to the training passes applied to its parameters.  No run
\* was terminated inside an epoch.
C18_NoEpochTrainedTwice ==
  /\ (pc = "for" /\ cfg.load_last_checkpoint /\ hist.resumed >= 0
         /\ hist.epochs_run = 0 /\ hist.kills = 0)
       => /\ loc.epoch = fs.model_last.epoch
          /\ model.params = loc.epoch
          /\ fs.model_last.epoch >= cfg.epochs_qty => loc.epoch >= cfg.epochs_qty
  /\ (pc = "loss_csv" /\ cfg.load_last_checkpoint /\ cfg.save_last_checkpoint
         /\ hist.kills = 0 /\ "model_last" \in hist.wrote)
       => fs.model_last.state_dict = fs.model_last.epoch

\* C19: over runs on one output directory of which every one after the first
\* resumed (hist.restarted is false), none terminated inside an epoch, each write of
\* model_best stores a best metric that is not above the one the file held before.
C19_BestNeverWorse ==
  [][ (pc = "checkpoint" /\ pc' = "loss_csv" /\ ~hist.restarted /\ hist.kills = 0
         /\ fs.model_best.exists /\ "model_best" \in hist'.wrote)
        => ~Less(fs.model_best.best_prec1, fs'.model_best.best_prec1)
    ]_vars

====
